---- MODULE Spec2Model ----
(***************************************************************************)
(* Model of day12/solution.py: the n-body simulation (Star, System,        *)
(* Solution), its total energy and its per-axis cycle detection.           *)
(*                                                                         *)
(* Python objects live in a heap (a sequence of Star values indexed by     *)
(* reference); the lists System.stars and System.starsIntial hold          *)
(* references, so that copying and aliasing are visible in the model.      *)
(* Python integers are unbounded: integers returned to the caller are      *)
(* kept as decimal digit strings (most significant digit first).           *)
(***************************************************************************)
EXTENDS Integers, Sequences, FiniteSets, TLC

VARIABLES heap, stars, starsIntial, requiredSteps,
          pc, caller, step, count, xCycle, yCycle, zCycle,
          lastCall, ret, cycles, prog

vars == <<heap, stars, starsIntial, requiredSteps,
          pc, caller, step, count, xCycle, yCycle, zCycle,
          lastCall, ret, cycles, prog>>

(* ---------------------------- bounds ----------------------------------- *)
MaxStars == 2
MaxX == 2
MaxY == 1
MaxZ == 1
MaxSteps == 1
MaxRuns == 2
MaxFineStars == 3
MaxFineSteps == 2
MaxCount == 16

(* ---------------------------- values ----------------------------------- *)
Dimensions == <<"x", "y", "z">>

Coordinates(x, y, z) == [x |-> x, y |-> y, z |-> z]

Gravity == Coordinates(0, 0, 0)

Velocity == Coordinates(0, 0, 0)

Position(x, y, z) == Coordinates(x, y, z)

Star(position, velocity) ==
  [position |-> position, velocity |-> velocity, gravity |-> Gravity]

None == <<>>

Abs(n) == IF n < 0 THEN -n ELSE n

Min(S) == CHOOSE m \in S : \A o \in S : m <= o

Range(s) == {s[i] : i \in DOMAIN s}

(* ------------------ unbounded integers (decimal digits) ---------------- *)
RECURSIVE ToBig(_)
ToBig(n) == IF n < 10 THEN <<n>> ELSE Append(ToBig(n \div 10), n % 10)

RECURSIVE BigModFrom(_, _, _, _)
BigModFrom(b, m, i, r) ==
  IF i > Len(b) THEN r ELSE BigModFrom(b, m, i + 1, (r * 10 + b[i]) % m)

BigMod(b, m) == BigModFrom(b, m, 1, 0)

RECURSIVE StripZeros(_)
StripZeros(b) ==
  IF Len(b) > 1 /\ b[1] = 0 THEN StripZeros(Tail(b)) ELSE b

RECURSIVE BigMulFrom(_, _, _, _, _)
BigMulFrom(b, a, i, carry, acc) ==
  IF i = 0
  THEN IF carry = 0 THEN acc ELSE ToBig(carry) \o acc
  ELSE BigMulFrom(b, a, i - 1, (b[i] * a + carry) \div 10,
                  <<(b[i] * a + carry) % 10>> \o acc)

BigMul(b, a) == StripZeros(BigMulFrom(b, a, Len(b), 0, <<>>))

RECURSIVE BigDivFrom(_, _, _, _, _)
BigDivFrom(b, g, i, r, acc) ==
  IF i > Len(b) THEN acc
  ELSE BigDivFrom(b, g, i + 1, (r * 10 + b[i]) % g,
                  Append(acc, (r * 10 + b[i]) \div g))

BigDiv(b, g) == StripZeros(BigDivFrom(b, g, 1, 0, <<>>))

RECURSIVE gcd(_, _)
gcd(a, b) == IF b = 0 THEN a ELSE gcd(b, a % b)

lcmNoGcd(a, b) == BigMul(b, a)

lcm(a, b) == BigDiv(BigMul(b, a), gcd(a, BigMod(b, a)))

(* ------------------------------ Star ----------------------------------- *)
accelerate(velocity, gravity) ==
  Coordinates(velocity.x + gravity.x,
              velocity.y + gravity.y,
              velocity.z + gravity.z)

move(position, velocity) ==
  Coordinates(position.x + velocity.x,
              position.y + velocity.y,
              position.z + velocity.z)

compareAlwaysX(h, self, other, dimension) ==
  IF h[self].position.x > h[other].position.x
  THEN LET h1 == [h EXCEPT ![self].gravity[dimension] = @ - 1]
       IN  [h1 EXCEPT ![other].gravity[dimension] = @ + 1]
  ELSE IF h[self].position.x < h[other].position.x
  THEN LET h1 == [h EXCEPT ![self].gravity[dimension] = @ + 1]
       IN  [h1 EXCEPT ![other].gravity[dimension] = @ - 1]
  ELSE h

compareOneSided(h, self, other, dimension) ==
  IF h[self].position[dimension] > h[other].position[dimension]
  THEN [h EXCEPT ![self].gravity[dimension] = @ - 1]
  ELSE IF h[self].position[dimension] < h[other].position[dimension]
  THEN [h EXCEPT ![self].gravity[dimension] = @ + 1]
  ELSE h

compareIndividualDimension(h, self, other, dimension) ==
  IF h[self].position[dimension] > h[other].position[dimension]
  THEN LET h1 == [h EXCEPT ![self].gravity[dimension] = @ - 1]
       IN  [h1 EXCEPT ![other].gravity[dimension] = @ + 1]
  ELSE IF h[self].position[dimension] < h[other].position[dimension]
  THEN LET h1 == [h EXCEPT ![self].gravity[dimension] = @ + 1]
       IN  [h1 EXCEPT ![other].gravity[dimension] = @ - 1]
  ELSE h

RECURSIVE updateGForceFrom(_, _, _, _)
updateGForceFrom(h, self, other, d) ==
  IF d > Len(Dimensions) THEN h
  ELSE updateGForceFrom(
         compareIndividualDimension(h, self, other, Dimensions[d]),
         self, other, d + 1)

updateGForceForPair(h, self, other) == updateGForceFrom(h, self, other, 1)

updateVelocity(h, self) ==
  [h EXCEPT ![self].velocity = accelerate(@, h[self].gravity)]

updatePositionOldVelocity(h, self) ==
  [h EXCEPT ![self].position =
              move(@, Coordinates(h[self].velocity.x - h[self].gravity.x,
                                  h[self].velocity.y - h[self].gravity.y,
                                  h[self].velocity.z - h[self].gravity.z))]

updatePosition(h, self) ==
  [h EXCEPT ![self].position = move(@, h[self].velocity)]

potentialEnergy(star) ==
  Abs(star.position.x) + Abs(star.position.y) + Abs(star.position.z)

kineticNoAbs(star) == star.velocity.x + star.velocity.y + star.velocity.z

kineticEnergy(star) ==
  Abs(star.velocity.x) + Abs(star.velocity.y) + Abs(star.velocity.z)

energyAsSum(star) == potentialEnergy(star) + kineticEnergy(star)

energy(star) == potentialEnergy(star) * kineticEnergy(star)

(* ------------------------------ System --------------------------------- *)
RECURSIVE deepcopyFrom(_, _, _, _, _)
deepcopyFrom(h, src, keep, i, acc) ==
  IF i > Len(src) THEN [heap |-> h, refs |-> acc]
  ELSE LET free == {r \in DOMAIN h : r \notin keep}
           r    == IF free = {} THEN Len(h) + 1 ELSE Min(free)
           h1   == IF r > Len(h) THEN Append(h, h[src[i]])
                   ELSE [h EXCEPT ![r] = h[src[i]]]
       IN  deepcopyFrom(h1, src, keep \cup {r}, i + 1, Append(acc, r))

deepcopy(h, src, live) == deepcopyFrom(h, src, live, 1, <<>>)

addStar(sys, star) ==
  LET h1 == Append(sys.heap, star)
      h2 == Append(h1, star)
  IN  [heap        |-> h2,
       stars       |-> Append(sys.stars, Len(h1)),
       starsIntial |-> Append(sys.starsIntial, Len(h2))]

RECURSIVE addStarsFrom(_, _, _)
addStarsFrom(sys, positions, i) ==
  IF i > Len(positions) THEN sys
  ELSE addStarsFrom(
         addStar(sys, Star(Position(positions[i][1], positions[i][2],
                                    positions[i][3]), Velocity)),
         positions, i + 1)

NewSystem(positions) ==
  addStarsFrom([heap |-> <<>>, stars |-> <<>>, starsIntial |-> <<>>],
               positions, 1)

resetNoop(sys) == sys

resetAliased(sys) == [sys EXCEPT !.stars = sys.starsIntial]

reset(sys) ==
  LET c == deepcopy(sys.heap, sys.starsIntial, Range(sys.starsIntial))
  IN  [sys EXCEPT !.heap = c.heap, !.stars = c.refs]

clearGravity(h, self) == [h EXCEPT ![self].gravity = Gravity]

RECURSIVE clearGravityFrom(_, _, _)
clearGravitySkipFirst(h, ss, i) ==
  IF i >= Len(ss) THEN h
  ELSE clearGravityFrom(clearGravity(h, ss[i + 1]), ss, i + 1)

clearGravityFrom(h, ss, i) ==
  IF i > Len(ss) THEN h
  ELSE clearGravityFrom(clearGravity(h, ss[i]), ss, i + 1)

bothOrders(ss) ==
  [k \in 1..(Len(ss) * Len(ss)) |->
     <<ss[((k - 1) \div Len(ss)) + 1], ss[((k - 1) % Len(ss)) + 1]>>]

RECURSIVE combinationsFrom(_, _, _)
combinationsFrom(ss, i, j) ==
  IF i >= Len(ss) THEN <<>>
  ELSE IF j > Len(ss) THEN combinationsFrom(ss, i + 1, i + 2)
  ELSE <<(<<ss[i], ss[j]>>)>> \o combinationsFrom(ss, i, j + 1)

combinations(ss) == combinationsFrom(ss, 1, 2)

RECURSIVE pairsFrom(_, _, _)
pairsFrom(h, pairs, k) ==
  IF k > Len(pairs) THEN h
  ELSE pairsFrom(updateGForceForPair(h, pairs[k][1], pairs[k][2]),
                 pairs, k + 1)

RECURSIVE integrateFrom(_, _, _)
integratePositionFirst(h, ss, i) ==
  IF i > Len(ss) THEN h
  ELSE integrateFrom(updateVelocity(updatePosition(h, ss[i]), ss[i]),
                     ss, i + 1)

integrateFrom(h, ss, i) ==
  IF i > Len(ss) THEN h
  ELSE integrateFrom(updatePosition(updateVelocity(h, ss[i]), ss[i]),
                     ss, i + 1)

pairPhase(h, ss) == pairsFrom(clearGravityFrom(h, ss, 1), combinations(ss), 1)

updateSystemByOneStep(h, ss) == integrateFrom(pairPhase(h, ss), ss, 1)

RECURSIVE energyFrom(_, _, _)
energyFrom(h, ss, i) ==
  IF i > Len(ss) THEN 0 ELSE energy(h[ss[i]]) + energyFrom(h, ss, i + 1)

getTotalEnergy(h, ss) == energyFrom(h, ss, 1)

atInitialNonEmpty(h, ss, si, dimension) ==
  /\ Len(ss) > 0
  /\ \A i \in 1..(IF Len(ss) < Len(si) THEN Len(ss) ELSE Len(si)) :
       /\ h[ss[i]].position[dimension] = h[si[i]].position[dimension]
       /\ h[ss[i]].velocity[dimension] = h[si[i]].velocity[dimension]

atInitialPositionOnly(h, ss, si, dimension) ==
  \A i \in 1..(IF Len(ss) < Len(si) THEN Len(ss) ELSE Len(si)) :
    h[ss[i]].position[dimension] = h[si[i]].position[dimension]

atInitialVelocityOnly(h, ss, si, dimension) ==
  \A i \in 1..(IF Len(ss) < Len(si) THEN Len(ss) ELSE Len(si)) :
    h[ss[i]].velocity[dimension] = h[si[i]].velocity[dimension]

isSystemAtInitialStateOnDimension(h, ss, si, dimension) ==
  \A i \in 1..(IF Len(ss) < Len(si) THEN Len(ss) ELSE Len(si)) :
    /\ h[ss[i]].position[dimension] = h[si[i]].position[dimension]
    /\ h[ss[i]].velocity[dimension] = h[si[i]].velocity[dimension]

(* ------------------------------ inputs --------------------------------- *)
Points == (0..MaxX) \X (0..MaxY) \X (0..MaxZ)

RECURSIVE Lists(_)
Lists(n) ==
  IF n = 0 THEN {<<>>}
  ELSE Lists(n - 1) \cup
       {Append(l, p) : l \in {m \in Lists(n - 1) : Len(m) = n - 1}, p \in Points}

Sample1 == << <<-1, 0, 2>>, <<2, -10, -7>>, <<4, -8, 8>>, <<3, 5, -1>> >>

Sample2 == << <<-8, -10, 0>>, <<5, 5, 10>>, <<2, -7, 3>>, <<9, -8, -3>> >>

(* --------------------------- state machine ----------------------------- *)
(* prog is the position inside a _updateSystemByOneStep in flight, with    *)
(* the heap at its start and what it has done so far; NoStep otherwise.    *)
ProgAt(phase, idx, pairs, velDone, posDone, start) ==
  [phase |-> phase, idx |-> idx, pairs |-> pairs,
   velDone |-> velDone, posDone |-> posDone, start |-> start]

NoStep == ProgAt("none", 0, 0, {}, {}, <<>>)

Idle(call, value) ==
  /\ prog' = NoStep
  /\ pc' = "idle"
  /\ caller' = "none"
  /\ step' = 0
  /\ count' = 0
  /\ xCycle' = 0
  /\ yCycle' = 0
  /\ zCycle' = 0
  /\ lastCall' = call
  /\ ret' = value

InitWith(positions, steps) ==
  LET sys == NewSystem(positions)
  IN  /\ heap = sys.heap
      /\ stars = sys.stars
      /\ starsIntial = sys.starsIntial
      /\ requiredSteps = steps
      /\ pc = "idle"
      /\ caller = "none"
      /\ step = 0
      /\ count = 0
      /\ xCycle = 0
      /\ yCycle = 0
      /\ zCycle = 0
      /\ lastCall = "none"
      /\ ret = None
      /\ cycles = <<>>
      /\ prog = NoStep

Init == \E positions \in Lists(MaxStars), steps \in 0..MaxSteps :
          InitWith(positions, steps)

UpdateSystemByOneStep ==
  /\ pc = "idle"
  /\ heap' = updateSystemByOneStep(heap, stars)
  /\ Idle("_updateSystemByOneStep", None)
  /\ UNCHANGED <<stars, starsIntial, requiredSteps, cycles>>

Reset ==
  /\ pc = "idle"
  /\ LET sys == reset([heap |-> heap, stars |-> stars,
                       starsIntial |-> starsIntial])
     IN  /\ heap' = sys.heap
         /\ stars' = sys.stars
         /\ starsIntial' = sys.starsIntial
  /\ Idle("reset", None)
  /\ UNCHANGED <<requiredSteps, cycles>>

EnterRun(who) ==
  /\ pc' = "runSimulation"
  /\ caller' = who
  /\ step' = 0
  /\ lastCall' = "none"
  /\ ret' = None
  /\ UNCHANGED <<heap, stars, starsIntial, requiredSteps, count,
                 xCycle, yCycle, zCycle, cycles, prog>>

RunSimulation == pc = "idle" /\ EnterRun("api")

SolvePart1 == pc = "idle" /\ EnterRun("solvePart1")

RunSimulationLoop ==
  /\ pc = "runSimulation"
  /\ step < requiredSteps
  /\ heap' = updateSystemByOneStep(heap, stars)
  /\ step' = step + 1
  /\ UNCHANGED <<stars, starsIntial, requiredSteps, pc, caller, count,
                 xCycle, yCycle, zCycle, lastCall, ret, cycles, prog>>

RunSimulationReturn ==
  /\ pc = "runSimulation"
  /\ step >= requiredSteps
  /\ IF caller = "solvePart1"
     THEN Idle("solvePart1", ToBig(getTotalEnergy(heap, stars)))
     ELSE Idle("runSimulation", None)
  /\ UNCHANGED <<heap, stars, starsIntial, requiredSteps, cycles>>

GetTotalEnergy ==
  /\ pc = "idle"
  /\ Idle("getTotalEnergy", ToBig(getTotalEnergy(heap, stars)))
  /\ UNCHANGED <<heap, stars, starsIntial, requiredSteps, cycles>>

EnterCycle(who) ==
  /\ pc' = "getSystemCycle"
  /\ caller' = who
  /\ count' = 0
  /\ xCycle' = 0
  /\ yCycle' = 0
  /\ zCycle' = 0
  /\ lastCall' = "none"
  /\ ret' = None
  /\ UNCHANGED <<step, requiredSteps, cycles, prog>>

GetSystemCycle ==
  /\ pc = "idle"
  /\ EnterCycle("api")
  /\ UNCHANGED <<heap, stars, starsIntial>>

SolvePart2WithoutReset ==
  /\ pc = "idle"
  /\ EnterCycle("solvePart2")
  /\ UNCHANGED <<heap, stars, starsIntial>>

SolvePart2 ==
  /\ pc = "idle"
  /\ LET sys == reset([heap |-> heap, stars |-> stars,
                       starsIntial |-> starsIntial])
     IN  /\ heap' = sys.heap
         /\ stars' = sys.stars
         /\ starsIntial' = sys.starsIntial
  /\ EnterCycle("solvePart2")

GetSystemCycleLoopLostZ ==
  /\ pc = "getSystemCycle"
  /\ ~(xCycle # 0 /\ yCycle # 0 /\ zCycle # 0)
  /\ count' = count + 1
  /\ heap' = updateSystemByOneStep(heap, stars)
  /\ xCycle' = IF xCycle = 0 /\ isSystemAtInitialStateOnDimension(
                                  heap', stars, starsIntial, "x")
               THEN count' ELSE xCycle
  /\ yCycle' = IF yCycle = 0 /\ isSystemAtInitialStateOnDimension(
                                  heap', stars, starsIntial, "y")
               THEN count' ELSE yCycle
  /\ zCycle' = IF zCycle = 0 /\ isSystemAtInitialStateOnDimension(
                                  heap', stars, starsIntial, "x")
               THEN zCycle ELSE zCycle
  /\ UNCHANGED <<stars, starsIntial, requiredSteps, pc, caller, step,
                 lastCall, ret, cycles, prog>>

GetSystemCycleLoopOverwrite ==
  /\ pc = "getSystemCycle"
  /\ ~(xCycle # 0 /\ yCycle # 0 /\ zCycle # 0)
  /\ count' = count + 1
  /\ heap' = updateSystemByOneStep(heap, stars)
  /\ xCycle' = IF isSystemAtInitialStateOnDimension(
                    heap', stars, starsIntial, "x")
               THEN count' ELSE xCycle
  /\ yCycle' = IF isSystemAtInitialStateOnDimension(
                    heap', stars, starsIntial, "y")
               THEN count' ELSE yCycle
  /\ zCycle' = IF isSystemAtInitialStateOnDimension(
                    heap', stars, starsIntial, "z")
               THEN count' ELSE zCycle
  /\ UNCHANGED <<stars, starsIntial, requiredSteps, pc, caller, step,
                 lastCall, ret, cycles, prog>>

GetSystemCycleLoop ==
  /\ pc = "getSystemCycle"
  /\ ~(xCycle # 0 /\ yCycle # 0 /\ zCycle # 0)
  /\ count' = count + 1
  /\ heap' = updateSystemByOneStep(heap, stars)
  /\ xCycle' = IF xCycle = 0 /\ isSystemAtInitialStateOnDimension(
                                  heap', stars, starsIntial, "x")
               THEN count' ELSE xCycle
  /\ yCycle' = IF yCycle = 0 /\ isSystemAtInitialStateOnDimension(
                                  heap', stars, starsIntial, "y")
               THEN count' ELSE yCycle
  /\ zCycle' = IF zCycle = 0 /\ isSystemAtInitialStateOnDimension(
                                  heap', stars, starsIntial, "z")
               THEN count' ELSE zCycle
  /\ UNCHANGED <<stars, starsIntial, requiredSteps, pc, caller, step,
                 lastCall, ret, cycles, prog>>

GetSystemCycleReturn ==
  /\ pc = "getSystemCycle"
  /\ xCycle # 0 /\ yCycle # 0 /\ zCycle # 0
  /\ LET value == lcm(xCycle, lcm(yCycle, ToBig(zCycle)))
     IN  /\ Idle(IF caller = "solvePart2" THEN "solvePart2"
                 ELSE "getSystemCycle", value)
         /\ cycles' = IF caller = "solvePart2" /\ Len(cycles) < MaxRuns
                     THEN Append(cycles, value) ELSE cycles
  /\ UNCHANGED <<heap, stars, starsIntial, requiredSteps>>

Next ==
  \/ UpdateSystemByOneStep
  \/ Reset
  \/ RunSimulation
  \/ GetTotalEnergy
  \/ SolvePart1
  \/ RunSimulationLoop
  \/ RunSimulationReturn
  \/ GetSystemCycle
  \/ SolvePart2
  \/ GetSystemCycleLoop
  \/ GetSystemCycleReturn

Spec == Init /\ [][Next]_vars

(* The program's entry point: solvePart1 once, then solvePart2 once, on    *)
(* the two sample inputs of the puzzle.                                    *)
MainInit == \E positions \in {Sample1, Sample2}, steps \in {10, 100} :
              InitWith(positions, steps)

MainPart1 == lastCall = "none" /\ SolvePart1

MainPart2 == lastCall = "solvePart1" /\ SolvePart2

MainNext ==
  \/ MainPart1
  \/ MainPart2
  \/ RunSimulationLoop
  \/ RunSimulationReturn
  \/ GetSystemCycleLoop
  \/ GetSystemCycleReturn

MainSpec == MainInit /\ [][MainNext]_vars

(* Call sequences made of solvePart1 and solvePart2 only.                  *)
SolveNext ==
  \/ SolvePart1
  \/ SolvePart2
  \/ RunSimulationLoop
  \/ RunSimulationReturn
  \/ GetSystemCycleLoop
  \/ GetSystemCycleReturn

SolveSpec == Init /\ [][SolveNext]_vars

(* runSimulation with the body of _updateSystemByOneStep executed one      *)
(* statement at a time: clear each gravity, each pair, then for each star  *)
(* updateVelocity and updatePosition.                                      *)
RECURSIVE loopExit(_, _, _)
loopExitEarly(phase, idx, ss) ==
  IF phase = "clear" /\ idx > Len(ss) THEN loopExit("pairs", 1, ss)
  ELSE IF phase = "pairs" /\ idx >= Len(combinations(ss))
  THEN loopExit("velocity", 1, ss)
  ELSE IF phase = "velocity" /\ idx > Len(ss) THEN <<"done", 0>>
  ELSE <<phase, idx>>

loopExit(phase, idx, ss) ==
  IF phase = "clear" /\ idx > Len(ss) THEN loopExit("pairs", 1, ss)
  ELSE IF phase = "pairs" /\ idx > Len(combinations(ss))
  THEN loopExit("velocity", 1, ss)
  ELSE IF phase = "velocity" /\ idx > Len(ss) THEN <<"done", 0>>
  ELSE <<phase, idx>>

Goto(point, pairs, velDone, posDone) ==
  prog' = ProgAt(point[1], point[2], pairs, velDone, posDone, prog.start)

FineFrame ==
  UNCHANGED <<stars, starsIntial, requiredSteps, pc, caller, step, count,
              xCycle, yCycle, zCycle, lastCall, ret, cycles>>

FineInit == \E positions \in Lists(MaxFineStars) :
              InitWith(positions, MaxFineSteps)

FineRun == lastCall = "none" /\ RunSimulation

FineStepBegin ==
  /\ pc = "runSimulation"
  /\ step < requiredSteps
  /\ prog.phase = "none"
  /\ LET point == loopExit("clear", 1, stars)
     IN  prog' = ProgAt(point[1], point[2], 0, {}, {}, heap)
  /\ UNCHANGED heap
  /\ FineFrame

FineClear ==
  /\ prog.phase = "clear"
  /\ heap' = clearGravity(heap, stars[prog.idx])
  /\ Goto(loopExit("clear", prog.idx + 1, stars), 0, {}, {})
  /\ FineFrame

FinePair ==
  /\ prog.phase = "pairs"
  /\ LET pair == combinations(stars)[prog.idx]
     IN  heap' = updateGForceForPair(heap, pair[1], pair[2])
  /\ Goto(loopExit("pairs", prog.idx + 1, stars), prog.pairs + 1, {}, {})
  /\ FineFrame

FineVelocity ==
  /\ prog.phase = "velocity"
  /\ heap' = updateVelocity(heap, stars[prog.idx])
  /\ Goto(<<"position", prog.idx>>, prog.pairs,
          prog.velDone \cup {prog.idx}, prog.posDone)
  /\ FineFrame

FinePosition ==
  /\ prog.phase = "position"
  /\ heap' = updatePosition(heap, stars[prog.idx])
  /\ Goto(loopExit("velocity", prog.idx + 1, stars), prog.pairs,
          prog.velDone, prog.posDone \cup {prog.idx})
  /\ FineFrame

FineStepEnd ==
  /\ prog.phase = "done"
  /\ step' = step + 1
  /\ prog' = NoStep
  /\ UNCHANGED <<heap, stars, starsIntial, requiredSteps, pc, caller, count,
                 xCycle, yCycle, zCycle, lastCall, ret, cycles>>

FineNext ==
  \/ FineRun
  \/ FineStepBegin
  \/ FineClear
  \/ FinePair
  \/ FineVelocity
  \/ FinePosition
  \/ FineStepEnd
  \/ RunSimulationReturn

FineSpec == FineInit /\ [][FineNext]_vars

FineOK == prog.phase \in {"none", "clear", "pairs", "velocity", "position",
                          "done"}

(* solvePart2 after any number of steps, with the loop of getSystemCycle   *)
(* cut off at MaxCount iterations; a call in progress keeps running.       *)
BoundedLoop == count < MaxCount /\ GetSystemCycleLoop

LiveNext ==
  \/ UpdateSystemByOneStep
  \/ SolvePart2
  \/ BoundedLoop
  \/ GetSystemCycleReturn

(* The steps of LiveNext that iterate the loop and that return, told by    *)
(* the variables they change: while the loop condition holds the only      *)
(* step is an iteration, and once it fails the only step is the return.    *)
LoopIterates ==
  /\ pc = "getSystemCycle"
  /\ ~(xCycle # 0 /\ yCycle # 0 /\ zCycle # 0)
  /\ count < MaxCount
  /\ count' = count + 1

LoopReturns ==
  /\ pc = "getSystemCycle"
  /\ xCycle # 0 /\ yCycle # 0 /\ zCycle # 0
  /\ pc' = "idle"

LiveSpec ==
  /\ Init
  /\ [][LiveNext]_vars
  /\ WF_count(LoopIterates)
  /\ WF_pc(LoopReturns)

(* ------------------------- derived state ------------------------------- *)
Live == [k \in DOMAIN stars |-> heap[stars[k]]]

Snapshot == [k \in DOMAIN starsIntial |-> heap[starsIntial[k]]]

InitialPositions ==
  [k \in DOMAIN starsIntial |->
     <<Snapshot[k].position.x, Snapshot[k].position.y,
       Snapshot[k].position.z>>]

RECURSIVE Sum(_, _)
Sum(f, k) == IF k = 0 THEN 0 ELSE f[k] + Sum(f, k - 1)

Momentum(dimension) ==
  Sum([k \in DOMAIN stars |-> Live[k].velocity[dimension]], Len(stars))

TotalGravity(h, dimension) ==
  Sum([k \in DOMAIN stars |-> h[stars[k]].gravity[dimension]], Len(stars))

Dims == Range(Dimensions)

(* The system freshly built from the snapshot's positions.                 *)
Fresh == NewSystem(InitialPositions)

RECURSIVE StepsFrom(_, _, _)
StepsFrom(h, ss, n) ==
  IF n = 0 THEN h ELSE StepsFrom(updateSystemByOneStep(h, ss), ss, n - 1)

SameState(h, ss, si) ==
  \A k \in DOMAIN ss : /\ h[ss[k]].position = h[si[k]].position
                        /\ h[ss[k]].velocity = h[si[k]].velocity

RECURSIVE FirstReturnFrom(_, _, _, _)
FirstReturnFrom(h, ss, si, k) ==
  LET h1 == updateSystemByOneStep(h, ss)
  IN  IF SameState(h1, ss, si) THEN k ELSE FirstReturnFrom(h1, ss, si, k + 1)

FirstReturn == FirstReturnFrom(Fresh.heap, Fresh.stars, Fresh.starsIntial, 1)

(* ------------------------------ claims --------------------------------- *)

(* C1 (as stated): on the first sample, solvePart1 returns 179 with        *)
(* requiredSteps = 10 and 1940 with requiredSteps = 100.                   *)
C1_AsStated ==
  (lastCall = "solvePart1" /\ InitialPositions = Sample1) =>
    /\ requiredSteps = 10 => ret = ToBig(179)
    /\ requiredSteps = 100 => ret = ToBig(1940)

(* C1 (amended): on the first sample, runSimulation followed by            *)
(* getTotalEnergy returns 179 with requiredSteps = 10 and 293 with         *)
(* requiredSteps = 100; 1940 is the energy of the second sample after      *)
(* 100 steps.                                                              *)
C1_SampleEnergy ==
  /\ (lastCall = "solvePart1" /\ InitialPositions = Sample1) =>
        /\ requiredSteps = 10 => ret = ToBig(179)
        /\ requiredSteps = 100 => ret = ToBig(293)
  /\ (lastCall = "solvePart1" /\ InitialPositions = Sample2) =>
        (requiredSteps = 100 => ret = ToBig(1940))

C1_Witness ==
  /\ lastCall = "solvePart1"
  /\ InitialPositions = Sample1
  /\ requiredSteps = 100
  /\ ret = <<2, 9, 3>>

(* C2: on the first sample, reset followed by getSystemCycle returns 2772. *)
C2_SampleCycle ==
  (lastCall = "solvePart2" /\ InitialPositions = Sample1) =>
    ret = <<2, 7, 7, 2>>

C2_Witness ==
  /\ lastCall = "solvePart2"
  /\ InitialPositions = Sample1
  /\ ret = ToBig(2772)

(* C3: on the second sample, reset followed by getSystemCycle returns      *)
(* 4686774924, the least common multiple of the three per-axis counts      *)
(* 2028, 5898 and 4702 at which the axes first return.                     *)
C3_SampleCycle ==
  /\ (lastCall = "solvePart2" /\ InitialPositions = Sample2) =>
        ret = <<4, 6, 8, 6, 7, 7, 4, 9, 2, 4>>
  /\ (pc = "getSystemCycle" /\ InitialPositions = Sample2) =>
        /\ xCycle \in {0, 2028}
        /\ yCycle \in {0, 5898}
        /\ zCycle \in {0, 4702}

C3_Witness ==
  /\ lastCall = "solvePart2"
  /\ InitialPositions = Sample2
  /\ Len(ret) = 10

(* C4: for a non-empty body list, the value solvePart2 returns (reset then *)
(* getSystemCycle) is the least k >= 1 such that k steps from the initial  *)
(* state bring every body's position and velocity back to the snapshot.    *)
C4_FirstFullReturn ==
  (lastCall = "solvePart2" /\ Len(starsIntial) >= 1) =>
    ret = ToBig(FirstReturn)

C4_Witness ==
  /\ lastCall = "solvePart2"
  /\ Len(starsIntial) >= 1
  /\ ret = ToBig(12)

(* C5: the sum of the live bodies' velocities is zero on every axis in     *)
(* every state between steps.                                              *)
C5_Momentum == \A d \in Dims : Momentum(d) = 0

C5_Witness ==
  /\ lastCall = "_updateSystemByOneStep"
  /\ cycles # <<>>
  /\ \E k \in DOMAIN stars : Live[k].velocity.x # 0
  /\ \A d \in Dims : Momentum(d) = 0

(* C6: a.updateGForceForPair(b) changes a's gravity on each axis by -1, +1 *)
(* or 0 as a's coordinate is greater than, less than or equal to b's, and  *)
(* b's gravity by the negation; after the pair phase of a step the         *)
(* gravity of the live bodies sums to zero on each axis.                   *)
C6_Antisymmetric ==
  /\ \A a \in Range(stars), b \in Range(stars), d \in Dims :
        a = b \/
        LET h2 == updateGForceForPair(heap, a, b)
            da == h2[a].gravity[d] - heap[a].gravity[d]
            db == h2[b].gravity[d] - heap[b].gravity[d]
        IN  /\ da = IF heap[a].position[d] > heap[b].position[d] THEN -1
                    ELSE IF heap[a].position[d] < heap[b].position[d] THEN 1
                    ELSE 0
            /\ db = -da
  /\ \A d \in Dims : TotalGravity(pairPhase(heap, stars), d) = 0
  /\ lastCall = "_updateSystemByOneStep" =>
        \A d \in Dims : TotalGravity(heap, d) = 0

C6_Witness ==
  /\ lastCall = "_updateSystemByOneStep"
  /\ \E a \in Range(stars), b \in Range(stars) :
        /\ heap[a].position.x > heap[b].position.x
        /\ heap[a].position.y < heap[b].position.y
        /\ heap[a].gravity.x # 0

(* C7: every solvePart1 returns the total energy of the state reached by   *)
(* exactly requiredSteps steps from the initial state, whatever            *)
(* solvePart1 / solvePart2 calls came before.                              *)
C7_Part1FromInitial ==
  lastCall = "solvePart1" =>
    ret = ToBig(getTotalEnergy(
                  StepsFrom(Fresh.heap, Fresh.stars, requiredSteps),
                  Fresh.stars))

(* C8: reset makes every live body's position and velocity, and the total  *)
(* energy, equal to the snapshot's; a reset right after a reset leaves     *)
(* the live state as it was.                                               *)
C8_Reset ==
  [][lastCall' = "reset" =>
       /\ Len(stars') = Len(starsIntial')
       /\ \A k \in DOMAIN stars' :
            /\ heap'[stars'[k]].position = heap'[starsIntial'[k]].position
            /\ heap'[stars'[k]].velocity = heap'[starsIntial'[k]].velocity
       /\ getTotalEnergy(heap', stars') = getTotalEnergy(heap', starsIntial')
       /\ lastCall = "reset" => Live' = Live]_vars

C8_Witness ==
  /\ lastCall = "reset"
  /\ cycles # <<>>
  /\ \E k \in DOMAIN stars : Live[k].position.x # 0
  /\ \A k \in DOMAIN stars : Live[k].velocity = Velocity

(* C9: the snapshot never changes: its bodies keep the position given to   *)
(* addStar and zero velocity, and no live body is a snapshot body.         *)
C9_SnapshotFrozen ==
  /\ [](/\ Range(stars) \cap Range(starsIntial) = {}
        /\ \A k \in DOMAIN starsIntial : Snapshot[k].velocity = Velocity)
  /\ [][/\ starsIntial' = starsIntial
        /\ \A k \in DOMAIN starsIntial :
             /\ heap'[starsIntial[k]].position = heap[starsIntial[k]].position
             /\ heap'[starsIntial[k]].velocity = heap[starsIntial[k]].velocity
       ]_vars

C9_Witness ==
  /\ pc = "getSystemCycle"
  /\ caller = "solvePart2"
  /\ count = 1
  /\ \E k \in DOMAIN stars : Live[k].position # Snapshot[k].position

(* C10: every solvePart2 (reset then getSystemCycle) returns the value the *)
(* first one returned, whatever steps and cycle runs came before.          *)
C10_Deterministic ==
  /\ \A k \in DOMAIN cycles : cycles[k] = cycles[1]
  /\ lastCall = "solvePart2" => ret = cycles[1]

C10_Witness ==
  /\ lastCall = "solvePart2"
  /\ Len(cycles) = 2
  /\ ret = ToBig(12)

(* C11: getTotalEnergy returns the sum over the live bodies of             *)
(* (|pos.x|+|pos.y|+|pos.z|) * (|vel.x|+|vel.y|+|vel.z|); it is never      *)
(* negative and it is 0 whenever every live body has zero velocity, as     *)
(* right after construction or reset.                                      *)
C11_Energy ==
  LET e == [k \in DOMAIN stars |->
              (Abs(Live[k].position.x) + Abs(Live[k].position.y)
                 + Abs(Live[k].position.z))
              * (Abs(Live[k].velocity.x) + Abs(Live[k].velocity.y)
                   + Abs(Live[k].velocity.z))]
  IN  /\ \A k \in DOMAIN stars : energy(Live[k]) = e[k]
      /\ getTotalEnergy(heap, stars) = Sum(e, Len(stars))
      /\ getTotalEnergy(heap, stars) >= 0
      /\ lastCall \in {"getTotalEnergy", "solvePart1"} =>
           ret = ToBig(Sum(e, Len(stars)))
      /\ (\A k \in DOMAIN stars : Live[k].velocity = Velocity) =>
           getTotalEnergy(heap, stars) = 0
      /\ lastCall \in {"none", "reset"} /\ pc = "idle" =>
           getTotalEnergy(heap, stars) = 0

C11_Witness ==
  /\ lastCall = "getTotalEnergy"
  /\ ret = ToBig(4)
  /\ \E k \in DOMAIN stars : Live[k].velocity.x < 0

(* ------------------- the step, statement by statement ------------------ *)
Started == prog.start

AllPairs == (Len(stars) * (Len(stars) - 1)) \div 2

(* Bodies with a greater coordinate minus bodies with a smaller one.       *)
Pull(h, k, d) ==
  Cardinality({j \in DOMAIN stars :
                 h[stars[j]].position[d] > h[stars[k]].position[d]})
  - Cardinality({j \in DOMAIN stars :
                   h[stars[j]].position[d] < h[stars[k]].position[d]})

PosVel(h) ==
  [k \in DOMAIN stars |->
     <<h[stars[k]].position, h[stars[k]].velocity>>]

(* The reference step: all gravity, then every velocity, then every        *)
(* position.                                                               *)
RECURSIVE velocitiesFrom(_, _, _)
velocitiesFrom(h, ss, i) ==
  IF i > Len(ss) THEN h ELSE velocitiesFrom(updateVelocity(h, ss[i]), ss, i + 1)

RECURSIVE positionsFrom(_, _, _)
positionsFrom(h, ss, i) ==
  IF i > Len(ss) THEN h ELSE positionsFrom(updatePosition(h, ss[i]), ss, i + 1)

referenceStep(h, ss) ==
  positionsFrom(velocitiesFrom(pairPhase(h, ss), ss, 1), ss, 1)

(* C12: in a step no velocity is updated before all C(n,2) pairs have been *)
(* accumulated, and for every body new velocity = old velocity + final     *)
(* gravity of the step and new position = old position + new velocity.     *)
C12_StepOrder ==
  prog.phase # "none" =>
    /\ prog.velDone # {} =>
         /\ prog.pairs = AllPairs
         /\ \A k \in DOMAIN stars : \A d \in Dims :
              Live[k].gravity[d] = Pull(Started, k, d)
    /\ \A k \in DOMAIN stars : \A d \in Dims :
         /\ Live[k].velocity[d] =
              IF k \in prog.velDone
              THEN Started[stars[k]].velocity[d] + Pull(Started, k, d)
              ELSE Started[stars[k]].velocity[d]
         /\ Live[k].position[d] =
              IF k \in prog.posDone
              THEN Started[stars[k]].position[d] + Live[k].velocity[d]
              ELSE Started[stars[k]].position[d]
    /\ prog.phase = "done" =>
         /\ prog.velDone = DOMAIN stars
         /\ prog.posDone = DOMAIN stars

C12_Witness ==
  /\ prog.phase = "done"
  /\ Len(stars) = 3
  /\ \E k \in DOMAIN stars :
       /\ Started[stars[k]].velocity.x # 0
       /\ Live[k].gravity.x # 0
       /\ Live[k].position.x =
            Started[stars[k]].position.x + Live[k].velocity.x

(* C13 (as stated): the velocity of every body has been integrated before  *)
(* the position of any body is.                                            *)
C13_AsStated == prog.posDone # {} => prog.velDone = DOMAIN stars

(* C13 (amended): a step clears every gravity, then accumulates every      *)
(* pair, then integrates the bodies one at a time in list order, each      *)
(* body's velocity immediately followed by the same body's position: a     *)
(* body's velocity is integrated before its own position, and a body's     *)
(* position before the next body's velocity.                               *)
C13_PerBodyOrder ==
  /\ prog.posDone \subseteq prog.velDone
  /\ prog.velDone = 1..Cardinality(prog.velDone)
  /\ prog.posDone = 1..Cardinality(prog.posDone)
  /\ prog.phase = "velocity" => prog.posDone = prog.velDone
  /\ prog.phase = "position" =>
       prog.velDone = prog.posDone \cup {prog.idx}
  /\ prog.phase \in {"velocity", "position"} => prog.pairs = AllPairs
  /\ prog.phase \in {"clear", "pairs"} => prog.velDone = {}
  /\ prog.phase = "clear" => prog.pairs = 0

C13_Witness ==
  /\ prog.phase = "velocity"
  /\ Len(stars) = 3
  /\ prog.posDone = {1}
  /\ prog.idx = 2
  /\ Live[1].position # Started[stars[1]].position
  /\ Live[2].velocity = Started[stars[2]].velocity
  /\ Live[2].gravity.x # 0

(* C14: after the pair phase each body's gravity on each axis is the       *)
(* number of other bodies with a greater coordinate minus the number with  *)
(* a smaller one, from the positions at the start of the step: every       *)
(* unordered pair counts once, no body is paired with itself and gravity   *)
(* of an earlier step does not carry over.                                 *)
C14_PairPhase ==
  /\ (prog.phase \in {"velocity", "done"} /\ prog.velDone = {}) =>
       /\ prog.pairs = AllPairs
       /\ \A k \in DOMAIN stars : \A d \in Dims :
            Live[k].gravity[d] = Pull(Started, k, d)
  /\ prog.phase # "none" =>
       LET pairs == combinations(stars)
           after == pairPhase(Started, stars)
       IN  /\ Len(pairs) = AllPairs
           /\ \A p \in Range(pairs) : p[1] # p[2]
           /\ \A a \in DOMAIN stars : \A b \in DOMAIN stars :
                a < b =>
                  Cardinality({n \in DOMAIN pairs :
                     Range(pairs[n]) = {stars[a], stars[b]}}) = 1
           /\ \A k \in DOMAIN stars : \A d \in Dims :
                after[stars[k]].gravity[d] = Pull(Started, k, d)

C14_Witness ==
  /\ prog.phase = "velocity"
  /\ prog.velDone = {}
  /\ Len(stars) = 3
  /\ step = 1
  /\ Started[stars[1]].gravity.x = 2
  /\ Live[1].gravity.x = -2

(* C18: the implemented step (velocity then position, body by body) gives  *)
(* the same positions and velocities as the reference step (every          *)
(* velocity, then every position), step after step.                        *)
C18_SameAsReference ==
  prog.phase = "done" =>
    /\ PosVel(heap) = PosVel(referenceStep(Started, stars))
    /\ PosVel(updateSystemByOneStep(Started, stars))
         = PosVel(referenceStep(Started, stars))

C18_Witness ==
  /\ prog.phase = "done"
  /\ step = 1
  /\ Len(stars) = 3
  /\ PosVel(heap) = PosVel(referenceStep(Started, stars))
  /\ \E k \in DOMAIN stars :
       /\ Started[stars[k]].velocity.x # 0
       /\ Live[k].velocity.x # Started[stars[k]].velocity.x
       /\ Live[k].position.x
            # Started[stars[k]].position.x + Started[stars[k]].velocity.x

(* --------------------------- cycle detection --------------------------- *)
AxisAtStart(h, d) ==
  \A k \in DOMAIN stars :
    /\ h[stars[k]].position[d] = h[starsIntial[k]].position[d]
    /\ h[stars[k]].velocity[d] = h[starsIntial[k]].velocity[d]

Recorded == [x |-> xCycle, y |-> yCycle, z |-> zCycle]

Max3(a, b, c) ==
  IF a >= b /\ a >= c THEN a ELSE IF b >= c THEN b ELSE c

(* C15: during getSystemCycle each of xCycle, yCycle, zCycle is 0 or the    *)
(* smallest count >= 1 at which its axis equalled the snapshot; a recorded *)
(* value is never overwritten, nothing is recorded at count 0, the loop    *)
(* stops at the first count at which all three are recorded, and the       *)
(* returned value is positive.                                             *)
C15_CycleRecords ==
  /\ [](/\ pc = "getSystemCycle" =>
             /\ \A d \in Dims :
                  /\ Recorded[d] \in 0..count
                  /\ Recorded[d] # 0 => Recorded[d] >= 1
                  /\ (Recorded[d] = 0 /\ count >= 1) => ~AxisAtStart(heap, d)
             /\ (\A d \in Dims : Recorded[d] # 0) =>
                  count = Max3(xCycle, yCycle, zCycle)
        /\ lastCall \in {"getSystemCycle", "solvePart2"} =>
             /\ Len(ret) >= 1
             /\ ret[1] \in 1..9)
  /\ [][(pc = "getSystemCycle" /\ pc' = "getSystemCycle") =>
          /\ count' = count + 1
          /\ \E d \in Dims : Recorded[d] = 0
          /\ xCycle # 0 => xCycle' = xCycle
          /\ yCycle # 0 => yCycle' = yCycle
          /\ zCycle # 0 => zCycle' = zCycle
          /\ (xCycle = 0 /\ xCycle' # 0) =>
               (xCycle' = count' /\ AxisAtStart(heap', "x"))
          /\ (yCycle = 0 /\ yCycle' # 0) =>
               (yCycle' = count' /\ AxisAtStart(heap', "y"))
          /\ (zCycle = 0 /\ zCycle' # 0) =>
               (zCycle' = count' /\ AxisAtStart(heap', "z"))]_vars

C15_Witness ==
  /\ pc = "getSystemCycle"
  /\ xCycle = 6
  /\ yCycle = 4
  /\ zCycle = 1
  /\ count = 6
  /\ AxisAtStart(heap, "x")
  /\ ~AxisAtStart(heap, "y")

(* C16: getSystemCycle called right after reset terminates: every axis is  *)
(* recorded after finitely many steps and the call returns.                *)
C16_Terminates ==
  (pc = "getSystemCycle" /\ caller = "solvePart2") ~>
    (lastCall = "solvePart2" /\ pc = "idle")

C16_Witness ==
  /\ pc = "getSystemCycle"
  /\ caller = "solvePart2"
  /\ count = 6
  /\ \A d \in Dims : Recorded[d] \in 1..6
  /\ count < MaxCount

(* -------------------------- axis independence -------------------------- *)
(* The system whose bodies keep the snapshot's coordinate on axis d and    *)
(* have 0 on the two other axes: every system that agrees with the         *)
(* snapshot on axis d has this same companion.                             *)
AxisOnly(d) ==
  NewSystem([k \in DOMAIN starsIntial |->
               <<IF d = "x" THEN Snapshot[k].position.x ELSE 0,
                 IF d = "y" THEN Snapshot[k].position.y ELSE 0,
                 IF d = "z" THEN Snapshot[k].position.z ELSE 0>>])

(* The loop of getSystemCycle on one axis: the heap after limit steps and  *)
(* the count recorded for axis d (0 when none was).                        *)
RECURSIVE AxisRunFrom(_, _, _, _, _, _, _)
AxisRunFrom(h, ss, si, d, c, limit, cycle) ==
  IF c > limit THEN [heap |-> h, cycle |-> cycle]
  ELSE LET h1 == updateSystemByOneStep(h, ss)
       IN  IF /\ \A k \in DOMAIN ss :
                   /\ h1[ss[k]].position[d] = h1[si[k]].position[d]
                   /\ h1[ss[k]].velocity[d] = h1[si[k]].velocity[d]
              /\ cycle = 0
           THEN AxisRunFrom(h1, ss, si, d, c + 1, limit, c)
           ELSE AxisRunFrom(h1, ss, si, d, c + 1, limit, cycle)

(* C17: axes do not interact: count steps after a reset, every body's      *)
(* position, velocity and gravity on an axis, and the count recorded for   *)
(* that axis, are those of the system that agrees on that axis only.       *)
C17_AxesIndependent ==
  (pc = "getSystemCycle" /\ caller = "solvePart2") =>
    \A d \in Dims :
      LET other == AxisOnly(d)
          run   == AxisRunFrom(other.heap, other.stars, other.starsIntial,
                               d, 1, count, 0)
      IN  /\ \A k \in DOMAIN stars :
               /\ Live[k].position[d] = run.heap[other.stars[k]].position[d]
               /\ Live[k].velocity[d] = run.heap[other.stars[k]].velocity[d]
               /\ Live[k].gravity[d] = run.heap[other.stars[k]].gravity[d]
          /\ Recorded[d] = run.cycle

C17_Witness ==
  /\ pc = "getSystemCycle"
  /\ caller = "solvePart2"
  /\ count = 5
  /\ xCycle = 0
  /\ yCycle = 4
  /\ \E k \in DOMAIN stars :
       /\ Live[k].velocity.x # 0
       /\ Live[k].velocity.y # 0
       /\ Live[k].gravity.z # 0

(* -------------------------- degenerate systems ------------------------- *)
(* No bodies, one body, or bodies that all share one position.             *)
Degenerate ==
  \A j \in DOMAIN starsIntial, k \in DOMAIN starsIntial :
    Snapshot[j].position = Snapshot[k].position

(* C19: on a degenerate system (no bodies, or all bodies at one position)  *)
(* getSystemCycle takes exactly one step, which changes nothing and        *)
(* records every axis at count 1, and returns 1, never 0.                  *)
C19_Degenerate ==
  Degenerate =>
    /\ \A k \in DOMAIN stars :
         /\ Live[k].position = Snapshot[k].position
         /\ Live[k].velocity = Velocity
         /\ Live[k].gravity = Gravity
    /\ pc = "getSystemCycle" =>
         /\ count \in {0, 1}
         /\ count = 0 => xCycle = 0 /\ yCycle = 0 /\ zCycle = 0
         /\ count = 1 => xCycle = 1 /\ yCycle = 1 /\ zCycle = 1
    /\ (pc = "idle" /\ lastCall \in {"solvePart2", "getSystemCycle"}) =>
         /\ ret = ToBig(1)
         /\ ret # ToBig(0)
    /\ \A n \in DOMAIN cycles : cycles[n] = ToBig(1)

C19_Witness ==
  /\ Degenerate
  /\ Len(starsIntial) = 2
  /\ Snapshot[1].position = Position(2, 1, 1)
  /\ pc = "getSystemCycle"
  /\ caller = "solvePart2"
  /\ cycles = <<ToBig(1)>>
  /\ count = 1
  /\ xCycle = 1 /\ yCycle = 1 /\ zCycle = 1

====
